---- MODULE Spec2Model ----
(***************************************************************************)
(* A model of the 3x3x3 cube simulator: src/src/cube.py (class Cube),     *)
(* src/src/solver.py (class Solver) and undo_move of src/src/cli.py.      *)
(*                                                                         *)
(* A cube is the record [faces, move_history].  faces is the list of six  *)
(* 3x3 grids, indexed from 0 as in the source; move_history is the list   *)
(* of logged moves.  A Python str is a sequence of one-character strings, *)
(* so that strip, endswith, slicing, split and join are computed the way  *)
(* the source computes them.                                               *)
(***************************************************************************)
EXTENDS Integers, Sequences, FiniteSets, TLC

VARIABLES
    faces,          \* Cube.faces
    move_history,   \* Cube.move_history
    last,           \* the last call made: its name, the cube it was made on,
                    \* its argument and return value, [op, on, arg, ret]
    snaps,          \* SpecTurns, SpecAlgs: the grid each call made so far found
    clone           \* SpecCopy: the cube c = cube.copy(), its grid and log, and
                    \* which of its lists are list objects of cube

vars == <<faces, move_history, last, snaps, clone>>

----------------------------------------------------------------------------
(* Bounds of the model *)

\* the move log never grows beyond MaxHist entries in Spec
MaxHist == 3
\* the number of direct quarter turns in SpecTurns
MaxTurns == 4
\* the largest scramble count in Spec
MaxScramble == 2
\* the largest scramble count in SpecSolve
MaxFreshScramble == 3
\* the largest number of tokens of an algorithm string given to execute_algorithm
MaxAlg == 2
\* the number of execute_algorithm calls in SpecAlgs
MaxRuns == 6
\* the move log of neither cube grows beyond MaxCopyLog entries in SpecCopy
MaxCopyLog == 2
\* the largest scramble count in SpecDraws
MaxDraws == 4
\* the move log never grows beyond MaxSolverLog entries in SpecSolver
MaxSolverLog == 2
\* the move log never grows beyond MaxCliLog entries in SpecCli
MaxCliLog == 3
\* the largest number of tokens on a line typed in SpecCli
MaxLine == 2

----------------------------------------------------------------------------
(* Class constants *)

U == 0
D == 1
F == 2
B == 3
L == 4
R == 5

FaceIdx == {U, D, F, B, L, R}

FACE_COLORS == <<"W", "Y", "G", "B", "O", "R">>

Colors == {FACE_COLORS[k] : k \in 1..6}

----------------------------------------------------------------------------
(* Python lists and strings *)

\* value bound to a name for the rest of a computation, as an assignment
\* name = value does: With(value, LAMBDA name : rest).  The value is computed
\* once, however often rest reads the name.
With(value, Rest(_)) == CHOOSE result \in {Rest(name) : name \in {value}} : TRUE

\* a three-element list, indexed 0..2
List3(a, b, c) == [k \in 0..2 |-> CASE k = 0 -> a [] k = 1 -> b [] OTHER -> c]

\* s[:-1]
DropLast(s) == IF s = <<>> THEN <<>> ELSE SubSeq(s, 1, Len(s) - 1)

\* s.endswith(ch) for a one-character ch
EndsWith(s, ch) == s # <<>> /\ s[Len(s)] = ch

\* the characters str.strip() and str.split() treat as white space
Whitespace == {" "}

RECURSIVE LStrip(_)
LStrip(s) == IF s # <<>> /\ s[1] \in Whitespace THEN LStrip(Tail(s)) ELSE s

RECURSIVE RStrip(_)
RStrip(s) == IF s # <<>> /\ s[Len(s)] \in Whitespace THEN RStrip(DropLast(s)) ELSE s

\* s.strip()
Strip(s) == RStrip(LStrip(s))

\* the first word of s (s starts with no white space)
RECURSIVE FirstWord(_)
FirstWord(s) ==
    IF s = <<>> \/ s[1] \in Whitespace THEN <<>>
    ELSE <<s[1]>> \o FirstWord(Tail(s))

\* s.split(): the maximal runs of non-white-space characters
RECURSIVE Split(_)
Split(s) ==
    LET t == LStrip(s)
        w == FirstWord(t)
    IN  IF t = <<>> THEN <<>>
        ELSE <<w>> \o Split(SubSeq(t, Len(w) + 1, Len(t)))

\* ' '.join(words)
RECURSIVE Join(_)
Join(words) ==
    IF words = <<>> THEN <<>>
    ELSE IF Len(words) = 1 THEN words[1]
    ELSE words[1] \o <<" ">> \o Join(Tail(words))

\* reversed(s)
RECURSIVE Reversed(_)
Reversed(s) == IF s = <<>> THEN <<>> ELSE Reversed(Tail(s)) \o <<s[1]>>

----------------------------------------------------------------------------
(* Cube: construction and queries *)

create_solved_cube ==
    [f \in FaceIdx |-> [r \in 0..2 |-> [c \in 0..2 |-> FACE_COLORS[f + 1]]]]

\* Cube()
NewCube == [faces |-> create_solved_cube, move_history |-> <<>>]

\* reset that leaves the move log as it is
reset_keep_log(cube) ==
    [faces |-> create_solved_cube, move_history |-> cube.move_history]

reset(cube) == [faces |-> create_solved_cube, move_history |-> <<>>]

is_solved(fs) ==
    \A f \in FaceIdx : \A r \in 0..2 : \A c \in 0..2 : fs[f][r][c] = fs[f][0][0]

----------------------------------------------------------------------------
(* Cube: the face rotations *)

\* rotate_face_clockwise with one cell of the first row read twice
rotate_face_clockwise_dup(fs, face_idx) ==
    LET face == fs[face_idx]
    IN  [fs EXCEPT ![face_idx] =
            List3(List3(face[2][0], face[1][0], face[2][0]),
                  List3(face[2][1], face[1][1], face[0][1]),
                  List3(face[2][2], face[1][2], face[0][2]))]

rotate_face_clockwise(fs, face_idx) ==
    LET face == fs[face_idx]
    IN  [fs EXCEPT ![face_idx] =
            List3(List3(face[2][0], face[1][0], face[0][0]),
                  List3(face[2][1], face[1][1], face[0][1]),
                  List3(face[2][2], face[1][2], face[0][2]))]

\* rotate_face_counter_clockwise turning the face clockwise
rotate_face_counter_clockwise_same(fs, face_idx) ==
    LET face == fs[face_idx]
    IN  [fs EXCEPT ![face_idx] =
            List3(List3(face[2][0], face[1][0], face[0][0]),
                  List3(face[2][1], face[1][1], face[0][1]),
                  List3(face[2][2], face[1][2], face[0][2]))]

\* _rotate_face_counter_clockwise with face[1][0] where the centre belongs
rotate_face_counter_clockwise_centre(fs, face_idx) ==
    LET face == fs[face_idx]
    IN  [fs EXCEPT ![face_idx] =
            List3(List3(face[0][2], face[1][2], face[2][2]),
                  List3(face[0][1], face[1][0], face[2][1]),
                  List3(face[0][0], face[1][0], face[2][0]))]

rotate_face_counter_clockwise(fs, face_idx) ==
    LET face == fs[face_idx]
    IN  [fs EXCEPT ![face_idx] =
            List3(List3(face[0][2], face[1][2], face[2][2]),
                  List3(face[0][1], face[1][1], face[2][1]),
                  List3(face[0][0], face[1][0], face[2][0]))]

\* self.faces[f][r] = row
SetRow(fs, f, r, row) == [fs EXCEPT ![f][r] = row]

\* for i in range(3): self.faces[f][r][i] = val[i]
SetRowCells(fs, f, r, val) == [fs EXCEPT ![f][r] = [i \in 0..2 |-> val[i]]]

\* the loop with the two indices swapped: self.faces[f][c][i] = val[i]
SetColCells_swapped(fs, f, c, val) ==
    [fs EXCEPT ![f][c] = [i \in 0..2 |-> val[i]]]

\* for i in range(3): self.faces[f][i][c] = val[i]
SetColCells(fs, f, c, val) ==
    [fs EXCEPT ![f] = [i \in 0..2 |-> [@[i] EXCEPT ![c] = val[i]]]]

\* self.move_history.append(name), with the grid the turn produced
Logged(cube, fs, name) ==
    [faces |-> fs, move_history |-> Append(cube.move_history, name)]

----------------------------------------------------------------------------
(* Cube: the twelve quarter turns.  Each assignment of the source is one   *)
(* step f1, f2, ... on the grid; a loop over i writes the three cells of   *)
(* one strip, which it never reads.  self is the cube the method is        *)
(* called on.                                                              *)

\* move_U that cycles the four strips and leaves the U face's own grid
move_U_strips_only(cube, prime) ==
    With(cube, LAMBDA self :
    IF prime
    THEN With(self.faces, LAMBDA f0 :
         With(f0[F][0], LAMBDA temp :
         With(SetRow(f0, F, 0, f0[R][0]), LAMBDA f1 :
         With(SetRow(f1, R, 0, f1[B][0]), LAMBDA f2 :
         With(SetRow(f2, B, 0, f2[L][0]), LAMBDA f3 :
         With(SetRow(f3, L, 0, temp), LAMBDA f4 :
         Logged(self, f4, <<"U", "'">>)))))))
    ELSE With(self.faces, LAMBDA f0 :
         With(f0[F][0], LAMBDA temp :
         With(SetRow(f0, F, 0, f0[L][0]), LAMBDA f1 :
         With(SetRow(f1, L, 0, f1[B][0]), LAMBDA f2 :
         With(SetRow(f2, B, 0, f2[R][0]), LAMBDA f3 :
         With(SetRow(f3, R, 0, temp), LAMBDA f4 :
         Logged(self, f4, <<"U">>))))))))

move_U(cube, prime) ==
    With(cube, LAMBDA self :
    IF prime
    THEN With(rotate_face_counter_clockwise(self.faces, U), LAMBDA f0 :
         With(f0[F][0], LAMBDA temp :
         With(SetRow(f0, F, 0, f0[R][0]), LAMBDA f1 :
         With(SetRow(f1, R, 0, f1[B][0]), LAMBDA f2 :
         With(SetRow(f2, B, 0, f2[L][0]), LAMBDA f3 :
         With(SetRow(f3, L, 0, temp), LAMBDA f4 :
         Logged(self, f4, <<"U", "'">>)))))))
    ELSE With(rotate_face_clockwise(self.faces, U), LAMBDA f0 :
         With(f0[F][0], LAMBDA temp :
         With(SetRow(f0, F, 0, f0[L][0]), LAMBDA f1 :
         With(SetRow(f1, L, 0, f1[B][0]), LAMBDA f2 :
         With(SetRow(f2, B, 0, f2[R][0]), LAMBDA f3 :
         With(SetRow(f3, R, 0, temp), LAMBDA f4 :
         Logged(self, f4, <<"U">>))))))))

move_D(cube, prime) ==
    With(cube, LAMBDA self :
    IF prime
    THEN With(rotate_face_counter_clockwise(self.faces, D), LAMBDA f0 :
         With(f0[F][2], LAMBDA temp :
         With(SetRow(f0, F, 2, f0[L][2]), LAMBDA f1 :
         With(SetRow(f1, L, 2, f1[B][2]), LAMBDA f2 :
         With(SetRow(f2, B, 2, f2[R][2]), LAMBDA f3 :
         With(SetRow(f3, R, 2, temp), LAMBDA f4 :
         Logged(self, f4, <<"D", "'">>)))))))
    ELSE With(rotate_face_clockwise(self.faces, D), LAMBDA f0 :
         With(f0[F][2], LAMBDA temp :
         With(SetRow(f0, F, 2, f0[R][2]), LAMBDA f1 :
         With(SetRow(f1, R, 2, f1[B][2]), LAMBDA f2 :
         With(SetRow(f2, B, 2, f2[L][2]), LAMBDA f3 :
         With(SetRow(f3, L, 2, temp), LAMBDA f4 :
         Logged(self, f4, <<"D">>))))))))

move_F(cube, prime) ==
    With(cube, LAMBDA self :
    IF prime
    THEN With(rotate_face_counter_clockwise(self.faces, F), LAMBDA f0 :
         With([i \in 0..2 |-> f0[U][2][i]], LAMBDA temp :
         With(SetRowCells(f0, U, 2, [i \in 0..2 |-> f0[R][i][0]]), LAMBDA f1 :
         With(SetColCells(f1, R, 0, [i \in 0..2 |-> f1[D][0][2 - i]]), LAMBDA f2 :
         With(SetRowCells(f2, D, 0, [i \in 0..2 |-> f2[L][i][2]]), LAMBDA f3 :
         With(SetColCells(f3, L, 2, [i \in 0..2 |-> temp[2 - i]]), LAMBDA f4 :
         Logged(self, f4, <<"F", "'">>)))))))
    ELSE With(rotate_face_clockwise(self.faces, F), LAMBDA f0 :
         With([i \in 0..2 |-> f0[U][2][i]], LAMBDA temp :
         With(SetRowCells(f0, U, 2, [i \in 0..2 |-> f0[L][2 - i][2]]), LAMBDA f1 :
         With(SetColCells(f1, L, 2, [i \in 0..2 |-> f1[D][0][i]]), LAMBDA f2 :
         With(SetRowCells(f2, D, 0, [i \in 0..2 |-> f2[R][2 - i][0]]), LAMBDA f3 :
         With(SetColCells(f3, R, 0, [i \in 0..2 |-> temp[i]]), LAMBDA f4 :
         Logged(self, f4, <<"F">>))))))))

move_B(cube, prime) ==
    With(cube, LAMBDA self :
    IF prime
    THEN With(rotate_face_counter_clockwise(self.faces, B), LAMBDA f0 :
         With([i \in 0..2 |-> f0[U][0][i]], LAMBDA temp :
         With(SetRowCells(f0, U, 0, [i \in 0..2 |-> f0[L][2 - i][0]]), LAMBDA f1 :
         With(SetColCells(f1, L, 0, [i \in 0..2 |-> f1[D][2][i]]), LAMBDA f2 :
         With(SetRowCells(f2, D, 2, [i \in 0..2 |-> f2[R][2 - i][2]]), LAMBDA f3 :
         With(SetColCells(f3, R, 2, [i \in 0..2 |-> temp[i]]), LAMBDA f4 :
         Logged(self, f4, <<"B", "'">>)))))))
    ELSE With(rotate_face_clockwise(self.faces, B), LAMBDA f0 :
         With([i \in 0..2 |-> f0[U][0][i]], LAMBDA temp :
         With(SetRowCells(f0, U, 0, [i \in 0..2 |-> f0[R][i][2]]), LAMBDA f1 :
         With(SetColCells(f1, R, 2, [i \in 0..2 |-> f1[D][2][2 - i]]), LAMBDA f2 :
         With(SetRowCells(f2, D, 2, [i \in 0..2 |-> f2[L][i][0]]), LAMBDA f3 :
         With(SetColCells(f3, L, 0, [i \in 0..2 |-> temp[2 - i]]), LAMBDA f4 :
         Logged(self, f4, <<"B">>))))))))

move_L(cube, prime) ==
    With(cube, LAMBDA self :
    IF prime
    THEN With(rotate_face_counter_clockwise(self.faces, L), LAMBDA f0 :
         With([i \in 0..2 |-> f0[U][i][0]], LAMBDA temp :
         With(SetColCells(f0, U, 0, [i \in 0..2 |-> f0[F][i][0]]), LAMBDA f1 :
         With(SetColCells(f1, F, 0, [i \in 0..2 |-> f1[D][i][0]]), LAMBDA f2 :
         With(SetColCells(f2, D, 0, [i \in 0..2 |-> f2[B][2 - i][2]]), LAMBDA f3 :
         With(SetColCells(f3, B, 2, [i \in 0..2 |-> temp[2 - i]]), LAMBDA f4 :
         Logged(self, f4, <<"L", "'">>)))))))
    ELSE With(rotate_face_clockwise(self.faces, L), LAMBDA f0 :
         With([i \in 0..2 |-> f0[U][i][0]], LAMBDA temp :
         With(SetColCells(f0, U, 0, [i \in 0..2 |-> f0[B][2 - i][2]]), LAMBDA f1 :
         With(SetColCells(f1, B, 2, [i \in 0..2 |-> f1[D][2 - i][0]]), LAMBDA f2 :
         With(SetColCells(f2, D, 0, [i \in 0..2 |-> f2[F][i][0]]), LAMBDA f3 :
         With(SetColCells(f3, F, 0, [i \in 0..2 |-> temp[i]]), LAMBDA f4 :
         Logged(self, f4, <<"L">>))))))))

\* move_R whose clockwise branch writes temp to B without reversing it
move_R_unreversed(cube, prime) ==
    With(cube, LAMBDA self :
    IF prime
    THEN With(rotate_face_counter_clockwise(self.faces, R), LAMBDA f0 :
         With([i \in 0..2 |-> f0[U][i][2]], LAMBDA temp :
         With(SetColCells(f0, U, 2, [i \in 0..2 |-> f0[B][2 - i][0]]), LAMBDA f1 :
         With(SetColCells(f1, B, 0, [i \in 0..2 |-> f1[D][2 - i][2]]), LAMBDA f2 :
         With(SetColCells(f2, D, 2, [i \in 0..2 |-> f2[F][i][2]]), LAMBDA f3 :
         With(SetColCells(f3, F, 2, [i \in 0..2 |-> temp[i]]), LAMBDA f4 :
         Logged(self, f4, <<"R", "'">>)))))))
    ELSE With(rotate_face_clockwise(self.faces, R), LAMBDA f0 :
         With([i \in 0..2 |-> f0[U][i][2]], LAMBDA temp :
         With(SetColCells(f0, U, 2, [i \in 0..2 |-> f0[F][i][2]]), LAMBDA f1 :
         With(SetColCells(f1, F, 2, [i \in 0..2 |-> f1[D][i][2]]), LAMBDA f2 :
         With(SetColCells(f2, D, 2, [i \in 0..2 |-> f2[B][2 - i][0]]), LAMBDA f3 :
         With(SetColCells(f3, B, 0, [i \in 0..2 |-> temp[i]]), LAMBDA f4 :
         Logged(self, f4, <<"R">>))))))))

move_R(cube, prime) ==
    With(cube, LAMBDA self :
    IF prime
    THEN With(rotate_face_counter_clockwise(self.faces, R), LAMBDA f0 :
         With([i \in 0..2 |-> f0[U][i][2]], LAMBDA temp :
         With(SetColCells(f0, U, 2, [i \in 0..2 |-> f0[B][2 - i][0]]), LAMBDA f1 :
         With(SetColCells(f1, B, 0, [i \in 0..2 |-> f1[D][2 - i][2]]), LAMBDA f2 :
         With(SetColCells(f2, D, 2, [i \in 0..2 |-> f2[F][i][2]]), LAMBDA f3 :
         With(SetColCells(f3, F, 2, [i \in 0..2 |-> temp[i]]), LAMBDA f4 :
         Logged(self, f4, <<"R", "'">>)))))))
    ELSE With(rotate_face_clockwise(self.faces, R), LAMBDA f0 :
         With([i \in 0..2 |-> f0[U][i][2]], LAMBDA temp :
         With(SetColCells(f0, U, 2, [i \in 0..2 |-> f0[F][i][2]]), LAMBDA f1 :
         With(SetColCells(f1, F, 2, [i \in 0..2 |-> f1[D][i][2]]), LAMBDA f2 :
         With(SetColCells(f2, D, 2, [i \in 0..2 |-> f2[B][2 - i][0]]), LAMBDA f3 :
         With(SetColCells(f3, B, 0, [i \in 0..2 |-> temp[2 - i]]), LAMBDA f4 :
         Logged(self, f4, <<"R">>))))))))

----------------------------------------------------------------------------
(* Cube: moves given as text *)

\* the keys of move_map
MoveKeys == {<<"U">>, <<"D">>, <<"F">>, <<"B">>, <<"L">>, <<"R">>}

\* move_map[key](prime)
move_map(key, cube, prime) ==
    CASE key = <<"U">> -> move_U(cube, prime)
      [] key = <<"D">> -> move_D(cube, prime)
      [] key = <<"F">> -> move_F(cube, prime)
      [] key = <<"B">> -> move_B(cube, prime)
      [] key = <<"L">> -> move_L(cube, prime)
      [] OTHER         -> move_R(cube, prime)

\* execute_move making a single quarter turn for a token that ends in 2
execute_move_once(cube, move) ==
    LET m0 == Strip(move)
        double == EndsWith(m0, "2")
        m1 == IF double THEN DropLast(m0) ELSE m0
        prime == EndsWith(m1, "'")
        m2 == IF prime THEN DropLast(m1) ELSE m1
    IN  IF m0 = <<>> THEN cube
        ELSE IF m2 \in MoveKeys
             THEN move_map(m2, cube, prime)
             ELSE cube

\* execute_move that looks up move_map without the test move in move_map
execute_move_unchecked(cube, move) ==
    LET m0 == Strip(move)
        double == EndsWith(m0, "2")
        m1 == IF double THEN DropLast(m0) ELSE m0
        prime == EndsWith(m1, "'")
        m2 == IF prime THEN DropLast(m1) ELSE m1
    IN  IF m0 = <<>> THEN cube
        ELSE IF double
             THEN move_map(m2, move_map(m2, cube, prime), prime)
             ELSE move_map(m2, cube, prime)

execute_move(cube, move) ==
    LET m0 == Strip(move)
        double == EndsWith(m0, "2")
        m1 == IF double THEN DropLast(m0) ELSE m0
        prime == EndsWith(m1, "'")
        m2 == IF prime THEN DropLast(m1) ELSE m1
    IN  IF m0 = <<>> THEN cube
        ELSE IF m2 \in MoveKeys
             THEN IF double
                  THEN move_map(m2, move_map(m2, cube, prime), prime)
                  ELSE move_map(m2, cube, prime)
             ELSE cube

\* the loop of execute_algorithm left after its first iteration
ExecuteAll_first(cube, moves) ==
    IF moves = <<>> THEN cube ELSE execute_move(cube, moves[1])

RECURSIVE ExecuteAll(_, _)
\* for move in moves: self.execute_move(move)
ExecuteAll(cube, moves) ==
    IF moves = <<>> THEN cube
    ELSE ExecuteAll(execute_move(cube, moves[1]), Tail(moves))

execute_algorithm(cube, algorithm) == ExecuteAll(cube, Split(algorithm))

----------------------------------------------------------------------------
(* Cube.scramble.  random.choice is a choice the caller of the model       *)
(* makes: draws[k] = <<move, modifier>> is what the k-th iteration drew.   *)

ScrambleMoves == {"U", "D", "F", "B", "L", "R"}

Modifiers == {<<>>, <<"'">>, <<"2">>}

\* the draws of a loop that chooses from moves, not from available_moves
ScrambleDraws_any(num_moves) == [1..num_moves -> ScrambleMoves \X Modifiers]

\* the draws that num_moves iterations can make: range(num_moves) is empty
\* for num_moves <= 0, and each move is drawn from available_moves
ScrambleDraws(num_moves) ==
    {d \in [1..num_moves -> ScrambleMoves \X Modifiers] :
        \A k \in 2..num_moves : d[k][1] # d[k - 1][1]}

RECURSIVE ScrambleLoop(_, _, _)
\* the loop body, for the draws still to come; acc is scramble_moves
ScrambleLoop(cube, draws, acc) ==
    IF draws = <<>> THEN [cube |-> cube, ret |-> Join(acc)]
    ELSE LET move == draws[1][1]
             modifier == draws[1][2]
         IN  ScrambleLoop(execute_move(cube, <<move>> \o modifier),
                          Tail(draws),
                          Append(acc, <<move>> \o modifier))

scramble(cube, draws) == ScrambleLoop(cube, draws, <<>>)

\* copy that hands the new cube the list self.faces itself
copy_shallow(cube) ==
    [faces |-> cube.faces, move_history |-> cube.move_history,
     shares_faces |-> TRUE, shares_history |-> FALSE]

\* Cube.copy: the grid and the log of new_cube, and whether its lists are the
\* list objects of self: deepcopy(self.faces) and self.move_history[:] are
\* new lists
copy(cube) ==
    [faces |-> cube.faces, move_history |-> cube.move_history,
     shares_faces |-> FALSE, shares_history |-> FALSE]

----------------------------------------------------------------------------
(* cli.undo_move: the cube after the call, and the value returned *)

\* undo_move that does not put history_backup back
undo_move_logging(cube) ==
    IF cube.move_history = <<>> THEN [cube |-> cube, ret |-> FALSE]
    ELSE LET last_move == cube.move_history[Len(cube.move_history)]
             popped == DropLast(cube.move_history)
             inverse == IF EndsWith(last_move, "'") THEN DropLast(last_move)
                        ELSE IF EndsWith(last_move, "2") THEN last_move
                        ELSE last_move \o <<"'">>
             moved == execute_move([faces |-> cube.faces,
                                    move_history |-> popped], inverse)
         IN  [cube |-> moved, ret |-> TRUE]

\* undo_move that reports success on an empty log
undo_move_no_check(cube) ==
    IF cube.move_history = <<>> THEN [cube |-> cube, ret |-> TRUE]
    ELSE LET last_move == cube.move_history[Len(cube.move_history)]
             popped == DropLast(cube.move_history)
             inverse == IF EndsWith(last_move, "'") THEN DropLast(last_move)
                        ELSE IF EndsWith(last_move, "2") THEN last_move
                        ELSE last_move \o <<"'">>
             history_backup == popped
         IN  With(execute_move([faces |-> cube.faces,
                                move_history |-> popped], inverse),
                  LAMBDA moved :
                  [cube |-> [faces |-> moved.faces,
                             move_history |-> history_backup],
                   ret |-> TRUE])

\* undo_move that takes history_backup before it pops the last move
undo_move_backup_first(cube) ==
    IF cube.move_history = <<>> THEN [cube |-> cube, ret |-> FALSE]
    ELSE LET last_move == cube.move_history[Len(cube.move_history)]
             history_backup == cube.move_history
             popped == DropLast(cube.move_history)
             inverse == IF EndsWith(last_move, "'") THEN DropLast(last_move)
                        ELSE IF EndsWith(last_move, "2") THEN last_move
                        ELSE last_move \o <<"'">>
         IN  With(execute_move([faces |-> cube.faces,
                                move_history |-> popped], inverse),
                  LAMBDA moved :
                  [cube |-> [faces |-> moved.faces,
                             move_history |-> history_backup],
                   ret |-> TRUE])

undo_move(cube) ==
    IF cube.move_history = <<>> THEN [cube |-> cube, ret |-> FALSE]
    ELSE LET last_move == cube.move_history[Len(cube.move_history)]
             popped == DropLast(cube.move_history)
             inverse == IF EndsWith(last_move, "'") THEN DropLast(last_move)
                        ELSE IF EndsWith(last_move, "2") THEN last_move
                        ELSE last_move \o <<"'">>
             history_backup == popped
         IN  With(execute_move([faces |-> cube.faces,
                                move_history |-> popped], inverse),
                  LAMBDA moved :
                  [cube |-> [faces |-> moved.faces,
                             move_history |-> history_backup],
                   ret |-> TRUE])

----------------------------------------------------------------------------
(* Solver.  The two messages of solve are one-element strings whose only   *)
(* character is none a move is written with.                               *)

ALREADY_SOLVED == <<"[already solved]">>
NO_HISTORY == <<"[no history]">>

\* _get_inverse_move without the branch for a token that ends in 2
get_inverse_move_no_double(move) ==
    LET m == Strip(move)
    IN  IF EndsWith(m, "'") THEN DropLast(m)
        ELSE m \o <<"'">>

get_inverse_move(move) ==
    LET m == Strip(move)
    IN  IF EndsWith(m, "2") THEN m
        ELSE IF EndsWith(m, "'") THEN DropLast(m)
        ELSE m \o <<"'">>

RECURSIVE InverseMoves(_)
\* [self._get_inverse_move(move) for move in moves]
InverseMoves(moves) ==
    IF moves = <<>> THEN <<>>
    ELSE <<get_inverse_move(moves[1])>> \o InverseMoves(Tail(moves))

\* solve that inverts the moves without reversing their order
solve_unreversed(cube) ==
    IF is_solved(cube.faces) THEN ALREADY_SOLVED
    ELSE IF cube.move_history # <<>>
         THEN Join(InverseMoves(cube.move_history))
         ELSE NO_HISTORY

\* solve that looks at the move log before it looks at the grid
solve_log_first(cube) ==
    IF cube.move_history # <<>>
    THEN Join(InverseMoves(Reversed(cube.move_history)))
    ELSE IF is_solved(cube.faces) THEN ALREADY_SOLVED
         ELSE NO_HISTORY

solve(cube) ==
    IF is_solved(cube.faces) THEN ALREADY_SOLVED
    ELSE IF cube.move_history # <<>>
         THEN Join(InverseMoves(Reversed(cube.move_history)))
         ELSE NO_HISTORY

\* get_solution(cube): Solver(cube).solve()
get_solution(cube) == solve(cube)

\* solution.startswith(one of the two messages)
IsMessage(solution) ==
    solution # <<>> /\ solution[1] \in {ALREADY_SOLVED[1], NO_HISTORY[1]}

solve_and_apply(cube) ==
    With(solve(cube), LAMBDA solution :
    IF IsMessage(solution) THEN [cube |-> cube, ret |-> solution]
    ELSE [cube |-> execute_algorithm(cube, solution), ret |-> solution])

----------------------------------------------------------------------------
(* The inputs the calls are made with *)

LegalTokens == {<<f>> \o m : f \in ScrambleMoves, m \in Modifiers}

\* tokens outside the grammar, and one with white space around it
OtherTokens ==
    {<<>>, <<"X">>, <<"u">>, <<"U", "'", "2">>, <<" ", "R", "'", " ">>}

MoveInputs == LegalTokens \cup OtherTokens

AlgTokens == {<<"R", "'">>, <<"F", "2">>}

\* "X R' u2 F X'": an algorithm with tokens outside the grammar
MalformedAlgs ==
    {Join(<< <<"X">>, <<"R", "'">>, <<"u", "2">>, <<"F">>, <<"X", "'">> >>)}

AlgInputs ==
    {Join(toks) : toks \in UNION {[1..n -> AlgTokens] : n \in 0..MaxAlg}}
        \cup MalformedAlgs

----------------------------------------------------------------------------
(* The state machine *)

Cube == [faces |-> faces, move_history |-> move_history]

\* the argument of a call: the bool of move_X(prime), the str of
\* execute_move(move) and execute_algorithm(algorithm), the int of
\* scramble(num_moves); a call without that argument leaves the field at rest
NoArg == [prime |-> FALSE, str |-> <<>>, num |-> 0]
ArgPrime(prime) == [NoArg EXCEPT !.prime = prime]
ArgStr(str) == [NoArg EXCEPT !.str = str]
ArgNum(num) == [NoArg EXCEPT !.num = num]

\* the value a call returns: the bool of undo_move, the str of scramble and
\* solve_and_apply; None leaves both fields at rest
RetNone == [bool |-> FALSE, str |-> <<>>]
RetBool(bool) == [RetNone EXCEPT !.bool = bool]
RetStr(str) == [RetNone EXCEPT !.str = str]

\* no copy of the cube was made yet
NoClone ==
    [made |-> FALSE, faces |-> NewCube.faces, move_history |-> <<>>,
     shares_faces |-> FALSE, shares_history |-> FALSE]

Init ==
    /\ faces = NewCube.faces
    /\ move_history = NewCube.move_history
    /\ last = [op |-> "new", on |-> "cube", arg |-> NoArg, ret |-> RetNone]
    /\ snaps = <<>>
    /\ clone = NoClone

\* a call cube.op(arg) that leaves the cube as res and returns ret
Call(op, arg, res, ret) ==
    \E after \in {res} :
       /\ faces' = after.faces
       /\ move_history' = after.move_history
       /\ last' = [op |-> op, on |-> "cube", arg |-> arg, ret |-> ret]

\* the direct calls cube.move_X(prime), made in SpecTurns; in Spec the moves
\* are made through execute_move, execute_algorithm and scramble
CallMoveU == \E prime \in BOOLEAN : Call("move_U", ArgPrime(prime), move_U(Cube, prime), RetNone)
CallMoveD == \E prime \in BOOLEAN : Call("move_D", ArgPrime(prime), move_D(Cube, prime), RetNone)
CallMoveF == \E prime \in BOOLEAN : Call("move_F", ArgPrime(prime), move_F(Cube, prime), RetNone)
CallMoveB == \E prime \in BOOLEAN : Call("move_B", ArgPrime(prime), move_B(Cube, prime), RetNone)
CallMoveL == \E prime \in BOOLEAN : Call("move_L", ArgPrime(prime), move_L(Cube, prime), RetNone)
CallMoveR == \E prime \in BOOLEAN : Call("move_R", ArgPrime(prime), move_R(Cube, prime), RetNone)

ExecuteMove ==
    /\ Len(move_history) < MaxHist
    /\ \E move \in MoveInputs :
          \E res \in {execute_move(Cube, move)} :
              /\ Len(res.move_history) <= MaxHist
              /\ Call("execute_move", ArgStr(move), res, RetNone)
    /\ UNCHANGED <<snaps, clone>>

ExecuteAlgorithm ==
    /\ Len(move_history) < MaxHist
    /\ \E algorithm \in AlgInputs :
          \E res \in {execute_algorithm(Cube, algorithm)} :
              /\ Len(res.move_history) <= MaxHist
              /\ Call("execute_algorithm", ArgStr(algorithm), res, RetNone)
    /\ UNCHANGED <<snaps, clone>>

Scramble ==
    /\ \E num_moves \in -1..MaxScramble :
          /\ Len(move_history) + num_moves <= MaxHist
          /\ \E draws \in ScrambleDraws(num_moves) :
                \E res \in {scramble(Cube, draws)} :
                    /\ Len(res.cube.move_history) <= MaxHist
                    /\ Call("scramble", ArgNum(num_moves), res.cube, RetStr(res.ret))
    /\ UNCHANGED <<snaps, clone>>

Undo ==
    /\ \E res \in {undo_move(Cube)} :
           Call("undo_move", NoArg, res.cube, RetBool(res.ret))
    /\ UNCHANGED <<snaps, clone>>

Reset ==
    /\ Call("reset", NoArg, reset(Cube), RetNone)
    /\ UNCHANGED <<snaps, clone>>

SolveAndApply ==
    /\ \E res \in {solve_and_apply(Cube)} :
           /\ Len(res.cube.move_history) <= MaxHist
           /\ Call("solve_and_apply", NoArg, res.cube, RetStr(res.ret))
    /\ UNCHANGED <<snaps, clone>>

Next ==
    \/ ExecuteMove
    \/ ExecuteAlgorithm
    \/ Scramble
    \/ Undo
    \/ Reset
    \/ SolveAndApply

Spec == Init /\ [][Next]_vars

----------------------------------------------------------------------------
(* SpecTurns: a new cube on which only the direct calls move_X(prime) are  *)
(* made; snaps keeps the grid each call found.                             *)

TurnU ==
    /\ Len(snaps) < MaxTurns
    /\ CallMoveU
    /\ snaps' = Append(snaps, faces)
    /\ UNCHANGED clone
TurnD ==
    /\ Len(snaps) < MaxTurns
    /\ CallMoveD
    /\ snaps' = Append(snaps, faces)
    /\ UNCHANGED clone
TurnF ==
    /\ Len(snaps) < MaxTurns
    /\ CallMoveF
    /\ snaps' = Append(snaps, faces)
    /\ UNCHANGED clone
TurnB ==
    /\ Len(snaps) < MaxTurns
    /\ CallMoveB
    /\ snaps' = Append(snaps, faces)
    /\ UNCHANGED clone
TurnL ==
    /\ Len(snaps) < MaxTurns
    /\ CallMoveL
    /\ snaps' = Append(snaps, faces)
    /\ UNCHANGED clone
TurnR ==
    /\ Len(snaps) < MaxTurns
    /\ CallMoveR
    /\ snaps' = Append(snaps, faces)
    /\ UNCHANGED clone

NextTurns == TurnU \/ TurnD \/ TurnF \/ TurnB \/ TurnL \/ TurnR

SpecTurns == Init /\ [][NextTurns]_vars

\* the grid after the k-th call of SpecTurns
GridAfter(k) == IF k = Len(snaps) THEN faces ELSE snaps[k + 1]

\* n clockwise quarter turns of the face named key
RECURSIVE QuarterTurns(_, _, _)
QuarterTurns(cube, key, n) ==
    IF n = 0 THEN cube ELSE QuarterTurns(move_map(key, cube, FALSE), key, n - 1)

----------------------------------------------------------------------------
(* SpecSolve: a new cube is scrambled once, then Solver(cube).solve_and_apply() *)
(* is called on it.                                                         *)

ScrambleNew ==
    /\ last.op = "new"
    /\ \E num_moves \in 0..MaxFreshScramble :
          \E draws \in ScrambleDraws(num_moves) :
             \E res \in {scramble(Cube, draws)} :
                 Call("scramble", ArgNum(num_moves), res.cube, RetStr(res.ret))
    /\ UNCHANGED <<snaps, clone>>

SolveScrambled ==
    /\ last.op = "scramble"
    /\ \E res \in {solve_and_apply(Cube)} :
           Call("solve_and_apply", NoArg, res.cube, RetStr(res.ret))
    /\ UNCHANGED <<snaps, clone>>

NextSolve == ScrambleNew \/ SolveScrambled

SpecSolve == Init /\ [][NextSolve]_vars

----------------------------------------------------------------------------
(* SpecAlgs: a new cube on which named algorithms are executed, one call   *)
(* execute_algorithm(algorithm) after another; snaps keeps the grid each   *)
(* call found.                                                             *)

\* "R U R' U'"
SEXY == Join(<< <<"R">>, <<"U">>, <<"R", "'">>, <<"U", "'">> >>)

\* "R U R' U R U2 R'"
SUNE ==
    Join(<< <<"R">>, <<"U">>, <<"R", "'">>, <<"U">>, <<"R">>, <<"U", "2">>,
            <<"R", "'">> >>)

\* "F R U R' U' F'"
FRUF ==
    Join(<< <<"F">>, <<"R">>, <<"U">>, <<"R", "'">>, <<"U", "'">>,
            <<"F", "'">> >>)

NamedAlgs == {SEXY, SUNE, FRUF}

RunAlgorithm ==
    /\ Len(snaps) < MaxRuns
    /\ \E algorithm \in NamedAlgs :
          \E res \in {execute_algorithm(Cube, algorithm)} :
              Call("execute_algorithm", ArgStr(algorithm), res, RetNone)
    /\ snaps' = Append(snaps, faces)
    /\ UNCHANGED clone

NextAlgs == RunAlgorithm

SpecAlgs == Init /\ [][NextAlgs]_vars

\* what one execution of the algorithm appends to the move log
LogOf(algorithm) == execute_algorithm(NewCube, algorithm).move_history

RECURSIVE Repeated(_, _)
\* the list log, n times over
Repeated(log, n) == IF n = 0 THEN <<>> ELSE log \o Repeated(log, n - 1)

\* the calls made on the new cube were n executions of the algorithm
RanTimes(algorithm, n) ==
    /\ Len(snaps) = n
    /\ move_history = Repeated(LogOf(algorithm), n)

----------------------------------------------------------------------------
(* SpecCopy: a cube and its copy c = cube.copy(), with calls made on       *)
(* either.  A call writes the list objects of the cube it is made on; the  *)
(* grid and log of the other cube change with them exactly where the two   *)
(* cubes hold the same list object.                                        *)

\* the faces the moves and the draws of SpecCopy are taken from
CopyFaces == {"U", "R"}

CopyTokens == {<<f>> \o m : f \in CopyFaces, m \in Modifiers}

\* the cubes there are to call
Targets == IF clone.made THEN {"cube", "c"} ELSE {"cube"}

Other(on) == IF on = "cube" THEN "c" ELSE "cube"

\* the grid and the log of the cube named on
CubeOf(on) ==
    IF on = "cube" THEN Cube
    ELSE [faces |-> clone.faces, move_history |-> clone.move_history]

\* a call on.op(arg) returning ret: res is the cube it leaves, seen what it
\* leaves in the list objects the cube held when it was called, rebound the
\* attributes it assigns a new list to
CallOn(on, op, arg, res, seen, rebound, ret) ==
    \E after \in {res} :
    \E other \in {[faces |-> IF clone.shares_faces THEN seen.faces
                              ELSE CubeOf(Other(on)).faces,
                    move_history |-> IF clone.shares_history
                                     THEN seen.move_history
                                     ELSE CubeOf(Other(on)).move_history]} :
       /\ faces' = IF on = "cube" THEN after.faces ELSE other.faces
       /\ move_history' =
             IF on = "cube" THEN after.move_history ELSE other.move_history
       /\ clone' =
             [made |-> clone.made,
              faces |-> IF on = "c" THEN after.faces ELSE other.faces,
              move_history |->
                  IF on = "c" THEN after.move_history ELSE other.move_history,
              shares_faces |-> clone.shares_faces /\ "faces" \notin rebound,
              shares_history |->
                  clone.shares_history /\ "move_history" \notin rebound]
       /\ last' = [op |-> op, on |-> on, arg |-> arg, ret |-> ret]

\* the list objects of the cube as undo_move leaves them: it pops from the
\* log and lets execute_move write the grid and append to the log, and only
\* then binds move_history to the new list history_backup
UndoneInPlace(cube) ==
    IF cube.move_history = <<>> THEN cube
    ELSE With(cube.move_history[Len(cube.move_history)], LAMBDA last_move :
         execute_move([faces |-> cube.faces,
                       move_history |-> DropLast(cube.move_history)],
                      IF EndsWith(last_move, "'") THEN DropLast(last_move)
                      ELSE IF EndsWith(last_move, "2") THEN last_move
                      ELSE last_move \o <<"'">>))

CopyCube ==
    /\ ~clone.made
    /\ \E new_cube \in {copy(Cube)} :
          clone' = [made |-> TRUE,
                    faces |-> new_cube.faces,
                    move_history |-> new_cube.move_history,
                    shares_faces |-> new_cube.shares_faces,
                    shares_history |-> new_cube.shares_history]
    /\ last' = [op |-> "copy", on |-> "cube", arg |-> NoArg, ret |-> RetNone]
    /\ UNCHANGED <<faces, move_history, snaps>>

MoveOn ==
    /\ \E on \in Targets : \E move \in CopyTokens :
          \E res \in {execute_move(CubeOf(on), move)} :
              /\ Len(res.move_history) <= MaxCopyLog
              /\ CallOn(on, "execute_move", ArgStr(move), res, res, {}, RetNone)
    /\ UNCHANGED snaps

ScrambleOn ==
    /\ \E on \in Targets : \E num_moves \in 0..MaxCopyLog :
          /\ Len(CubeOf(on).move_history) + num_moves <= MaxCopyLog
          /\ \E draws \in {d \in ScrambleDraws(num_moves) :
                                \A k \in 1..num_moves : d[k][1] \in CopyFaces} :
                \E res \in {scramble(CubeOf(on), draws)} :
                    /\ Len(res.cube.move_history) <= MaxCopyLog
                    /\ CallOn(on, "scramble", ArgNum(num_moves), res.cube,
                              res.cube, {}, RetStr(res.ret))
    /\ UNCHANGED snaps

ResetOn ==
    /\ \E on \in Targets :
          CallOn(on, "reset", NoArg, reset(CubeOf(on)), CubeOf(on),
                 {"faces", "move_history"}, RetNone)
    /\ UNCHANGED snaps

UndoOn ==
    /\ \E on \in Targets : \E res \in {undo_move(CubeOf(on))} :
          CallOn(on, "undo_move", NoArg, res.cube, UndoneInPlace(CubeOf(on)),
                 IF res.ret THEN {"move_history"} ELSE {}, RetBool(res.ret))
    /\ UNCHANGED snaps

NextCopy == CopyCube \/ MoveOn \/ ScrambleOn \/ ResetOn \/ UndoOn

SpecCopy == Init /\ [][NextCopy]_vars

----------------------------------------------------------------------------
(* SpecDraws: a new cube is scrambled once, with a count of 1..MaxDraws    *)
(* and draws on three of the six faces.                                    *)

DrawFaces == {"U", "D", "F"}

ScrambleSolved ==
    /\ last.op = "new"
    /\ \E num_moves \in 1..MaxDraws :
          \E draws \in {d \in ScrambleDraws(num_moves) :
                           \A k \in 1..num_moves : d[k][1] \in DrawFaces} :
             \E res \in {scramble(Cube, draws)} :
                 Call("scramble", ArgNum(num_moves), res.cube, RetStr(res.ret))
    /\ UNCHANGED <<snaps, clone>>

NextDraws == ScrambleSolved

SpecDraws == Init /\ [][NextDraws]_vars

----------------------------------------------------------------------------
(* SpecSolver: a cube that is turned by execute_move and asked for its     *)
(* solution, by Solver(cube).solve() and by get_solution(cube).  Neither   *)
(* of the two writes to the cube: solve assigns self.solution only.        *)

SolverMove ==
    /\ Len(move_history) < MaxSolverLog
    /\ \E move \in LegalTokens :
          \E res \in {execute_move(Cube, move)} :
              /\ Len(res.move_history) <= MaxSolverLog
              /\ Call("execute_move", ArgStr(move), res, RetNone)
    /\ UNCHANGED <<snaps, clone>>

Solve ==
    /\ Call("solve", NoArg, Cube, RetStr(solve(Cube)))
    /\ UNCHANGED <<snaps, clone>>

GetSolution ==
    /\ Call("get_solution", NoArg, Cube, RetStr(get_solution(Cube)))
    /\ UNCHANGED <<snaps, clone>>

NextSolver == SolverMove \/ Solve \/ GetSolution

SpecSolver == Init /\ [][NextSolver]_vars

----------------------------------------------------------------------------
(* SpecCli: the command loop of cli.main, one line of input per step, for  *)
(* lines that are moves, undo, reset or quit.                              *)

Lowercase ==
    <<"a", "b", "c", "d", "e", "f", "g", "h", "i", "j", "k", "l", "m", "n",
        "o", "p", "q", "r", "s", "t", "u", "v", "w", "x", "y", "z">>

Uppercase ==
    <<"A", "B", "C", "D", "E", "F", "G", "H", "I", "J", "K", "L", "M", "N",
        "O", "P", "Q", "R", "S", "T", "U", "V", "W", "X", "Y", "Z">>

\* the place of the character in the list letters, 0 if it is not there
IndexIn(letters, ch) ==
    IF \E i \in 1..Len(letters) : letters[i] = ch
    THEN CHOOSE i \in 1..Len(letters) : letters[i] = ch
    ELSE 0

\* str.lower
Lower(s) ==
    [i \in 1..Len(s) |->
        IF IndexIn(Uppercase, s[i]) = 0 THEN s[i]
        ELSE Lowercase[IndexIn(Uppercase, s[i])]]

\* str.upper
Upper(s) ==
    [i \in 1..Len(s) |->
        IF IndexIn(Lowercase, s[i]) = 0 THEN s[i]
        ELSE Uppercase[IndexIn(Lowercase, s[i])]]

QuitWords == {<<"q", "u", "i", "t">>, <<"e", "x", "i", "t">>, <<"q">>}

\* the words the branches before the last else of the loop test command for
CommandWords ==
    QuitWords \cup
    {<<"h", "e", "l", "p">>, <<"s", "h", "o", "w">>, <<"r", "e", "s", "e", "t">>,
     <<"s", "c", "r", "a", "m", "b", "l", "e">>, <<"s", "o", "l", "v", "e">>,
     <<"h", "i", "s", "t", "o", "r", "y">>, <<"u", "n", "d", "o">>}

\* command = user_input.lower().split()[0]
Command(user_input) == Split(Lower(user_input))[1]

\* the moves branch skipping the invalid moves of a line and making the others
move_input_skip(cube, user_input) ==
    ExecuteAll(cube, SelectSeq(Split(Upper(user_input)),
                               LAMBDA move : move \in LegalTokens))

\* the last else of the loop: the line is taken as moves, which are made
\* if all of them are valid_moves
move_input(cube, user_input) ==
    LET moves == Split(Upper(user_input))
        all_valid == \A k \in 1..Len(moves) : moves[k] \in LegalTokens
    IN  IF all_valid THEN ExecuteAll(cube, moves) ELSE cube

\* the tokens of the lines typed
CliTokens ==
    {<<"R">>, <<"u", "'">>, <<"x">>}

CliLines ==
    {Join(toks) : toks \in UNION {[1..n -> CliTokens] : n \in 1..MaxLine}}
        \cup {<<"r", "e", "s", "e", "t">>, <<" ">> \o <<"U", "n", "d", "o">>,
              <<"u", "n", "d", "o", " ", "R">>, <<"U", "'", "2">>, <<"Q">>}

CliMoves ==
    /\ last.op # "quit"
    /\ \E line \in CliLines : \E user_input \in {Strip(line)} :
          /\ user_input # <<>>
          /\ Command(user_input) \notin CommandWords
          /\ \E res \in {move_input(Cube, user_input)} :
                /\ Len(res.move_history) <= MaxCliLog
                /\ Call("move_input", ArgStr(line), res, RetNone)
    /\ UNCHANGED <<snaps, clone>>

CliUndo ==
    /\ last.op # "quit"
    /\ \E line \in CliLines : \E user_input \in {Strip(line)} :
          /\ user_input # <<>>
          /\ Command(user_input) = <<"u", "n", "d", "o">>
          /\ \E res \in {undo_move(Cube)} :
                Call("undo_move", ArgStr(line), res.cube, RetBool(res.ret))
    /\ UNCHANGED <<snaps, clone>>

CliReset ==
    /\ last.op # "quit"
    /\ \E line \in CliLines : \E user_input \in {Strip(line)} :
          /\ user_input # <<>>
          /\ Command(user_input) = <<"r", "e", "s", "e", "t">>
          /\ Call("reset", ArgStr(line), reset(Cube), RetNone)
    /\ UNCHANGED <<snaps, clone>>

CliQuit ==
    /\ last.op # "quit"
    /\ \E line \in CliLines : \E user_input \in {Strip(line)} :
          /\ user_input # <<>>
          /\ Command(user_input) \in QuitWords
          /\ Call("quit", ArgStr(line), Cube, RetNone)
    /\ UNCHANGED <<snaps, clone>>

NextCli == CliMoves \/ CliUndo \/ CliReset \/ CliQuit

SpecCli == Init /\ [][NextCli]_vars

----------------------------------------------------------------------------
(* C1: order-4 law.  From every reachable state, four clockwise quarter    *)
(* turns of one face give back the grid they started from: both for the    *)
(* four turns applied to the current cube, and for every four consecutive  *)
(* calls move_X() of the same face that were made.                         *)

SameFaceRun(k, n) ==
    /\ k + n - 1 <= Len(move_history)
    /\ \A j \in k..(k + n - 1) :
          Len(move_history[j]) = 1 /\ move_history[j] = move_history[k]

Order4Law ==
    /\ \A key \in MoveKeys : QuarterTurns(Cube, key, 4).faces = faces
    /\ \A k \in 1..Len(snaps) : SameFaceRun(k, 4) => GridAfter(k + 3) = snaps[k]

\* four consecutive clockwise turns of one face were made, changed the grid
\* on the way and gave back the grid the first of them found
Order4Witness ==
    \E k \in 1..Len(snaps) :
        /\ SameFaceRun(k, 4)
        /\ ~is_solved(GridAfter(k))
        /\ GridAfter(k + 3) = snaps[k]

(* C2: inverse pairs.  From every reachable state, X then X' and X' then X *)
(* give back the grid, for every face X: applied to the current cube, and  *)
(* for every two consecutive calls move_X(), move_X(prime) that were made. *)

InversePair(a, b) ==
    /\ a[1] = b[1]
    /\ \/ Len(a) = 1 /\ b = a \o <<"'">>
       \/ Len(b) = 1 /\ a = b \o <<"'">>

InversePairs ==
    /\ \A key \in MoveKeys : \A prime \in BOOLEAN :
          move_map(key, move_map(key, Cube, prime), ~prime).faces = faces
    /\ \A k \in 1..(Len(snaps) - 1) :
          InversePair(move_history[k], move_history[k + 1])
             => GridAfter(k + 1) = snaps[k]

\* X then X' was made, and X' then X, each on a grid that was not solved
InversePairsWitness ==
    /\ Len(snaps) = 4
    /\ ~is_solved(snaps[2])
    /\ Len(move_history[2]) = 1 /\ InversePair(move_history[2], move_history[3])
    /\ GridAfter(3) = snaps[2]
    /\ Len(move_history[4]) = 1 /\ InversePair(move_history[3], move_history[4])
    /\ GridAfter(4) = snaps[3]

(* C3: closure.  In every state reachable by moves, algorithms, scrambles, *)
(* undos, resets and applied solutions the grid holds exactly 9 facelets   *)
(* of each of the six colors.                                              *)

Cells == FaceIdx \X (0..2) \X (0..2)

CountOf(fs, color) == Cardinality({p \in Cells : fs[p[1]][p[2]][p[3]] = color})

ColorClosure ==
    /\ \A p \in Cells : faces[p[1]][p[2]][p[3]] \in Colors
    /\ \A color \in Colors : CountOf(faces, color) = 9

\* a scrambled cube was turned further and one move was undone
ColorClosureWitness ==
    /\ last.op = "undo_move"
    /\ last.ret.bool = TRUE
    /\ Len(move_history) >= 2
    /\ ~is_solved(faces)
    /\ \E f \in FaceIdx : \E color \in Colors :
          Cardinality({p \in Cells : p[1] = f /\ faces[p[1]][p[2]][p[3]] = color}) = 3

(* C4: permutation rule.  A clockwise quarter turn of any face, U and D    *)
(* included, carries the strips around the face the way it rotates the    *)
(* face's own grid, so the facelets of a corner or edge piece stay        *)
(* together: a grid whose 8 corner and 12 edge places each hold the       *)
(* colors of one piece has that property again after the turn.            *)

At(fs, p) == fs[p[1]][p[2]][p[3]]

\* the facelets that meet at each corner of the cube, as the net of __str__
\* (U above F, the row L F R B, D below F) folds up
Corners ==
    { {<<U, 2, 2>>, <<F, 0, 2>>, <<R, 0, 0>>},
      {<<U, 2, 0>>, <<F, 0, 0>>, <<L, 0, 2>>},
      {<<U, 0, 2>>, <<B, 0, 0>>, <<R, 0, 2>>},
      {<<U, 0, 0>>, <<B, 0, 2>>, <<L, 0, 0>>},
      {<<D, 0, 2>>, <<F, 2, 2>>, <<R, 2, 0>>},
      {<<D, 0, 0>>, <<F, 2, 0>>, <<L, 2, 2>>},
      {<<D, 2, 2>>, <<B, 2, 0>>, <<R, 2, 2>>},
      {<<D, 2, 0>>, <<B, 2, 2>>, <<L, 2, 0>>} }

\* the facelets that meet at each edge of the cube
Edges ==
    { {<<U, 2, 1>>, <<F, 0, 1>>}, {<<U, 1, 0>>, <<L, 0, 1>>},
      {<<U, 1, 2>>, <<R, 0, 1>>}, {<<U, 0, 1>>, <<B, 0, 1>>},
      {<<D, 0, 1>>, <<F, 2, 1>>}, {<<D, 1, 0>>, <<L, 2, 1>>},
      {<<D, 1, 2>>, <<R, 2, 1>>}, {<<D, 2, 1>>, <<B, 2, 1>>},
      {<<F, 1, 2>>, <<R, 1, 0>>}, {<<F, 1, 0>>, <<L, 1, 2>>},
      {<<B, 1, 0>>, <<R, 1, 2>>}, {<<B, 1, 2>>, <<L, 1, 0>>} }

\* the colors of the facelets at the places t
ColorsAt(fs, t) == {At(fs, p) : p \in t}

\* every corner and edge place holds the colors of one piece of the cube
PiecesTogether(fs) ==
    /\ \A t \in Corners :
          ColorsAt(fs, t) \in {ColorsAt(create_solved_cube, t2) : t2 \in Corners}
    /\ \A t \in Edges :
          ColorsAt(fs, t) \in {ColorsAt(create_solved_cube, t2) : t2 \in Edges}

ClockwiseTurnOps == {"move_U", "move_D", "move_F", "move_B", "move_L", "move_R"}

TurnKeepsPiecesTogether ==
    [][ (last'.op \in ClockwiseTurnOps /\ last'.arg.prime = FALSE /\ PiecesTogether(faces))
           => PiecesTogether(faces') ]_vars

(* C5: double turn.  Whenever execute_move is called with a token X2, the  *)
(* grid it leaves is the grid two clockwise quarter turns of X leave.      *)

IsDoubleToken(t) == Len(t) = 2 /\ t[1] \in ScrambleMoves /\ t[2] = "2"

DoubleTurn ==
    [][ (last'.op = "execute_move" /\ IsDoubleToken(last'.arg.str))
           => faces' = QuarterTurns(Cube, <<last'.arg.str[1]>>, 2).faces ]_vars

\* X2 was executed on a cube that had been turned on another face
DoubleTurnWitness ==
    /\ last.op = "execute_move"
    /\ IsDoubleToken(last.arg.str)
    /\ Len(move_history) >= 3
    /\ move_history[1][1] # last.arg.str[1]
    /\ ~is_solved(faces)

(* C6: move log notation.  Executing a legal token appends exactly one     *)
(* entry to the move log, the token as it was written (X, X' or X2).       *)

LogKeepsToken ==
    [][ (last'.op = "execute_move" /\ last'.arg.str \in LegalTokens)
           => move_history' = Append(move_history, last'.arg.str) ]_vars

(* C7: undo round trip.  From every reachable state and for every legal    *)
(* token t, executing t and then undoing once gives back the grid and the  *)
(* move log there were before t.                                           *)

UndoRoundTrip ==
    \A t \in LegalTokens : undo_move(execute_move(Cube, t)).cube = Cube

(* C8: undo and the log.  An undo on a non-empty log succeeds and leaves   *)
(* the log one entry shorter, its earlier entries as they were.            *)

UndoDropsLast ==
    [][ (last'.op = "undo_move" /\ move_history # <<>>)
           => /\ last'.ret.bool = TRUE
              /\ Len(move_history') = Len(move_history) - 1
              /\ \A k \in 1..Len(move_history') :
                    move_history'[k] = move_history[k] ]_vars

\* an undo succeeded and left at least two entries in the log
UndoDropsLastWitness ==
    /\ last.op = "undo_move"
    /\ last.ret.bool = TRUE
    /\ Len(move_history) >= 2

(* C9: undo on an empty log.  It returns False and changes neither the     *)
(* grid nor the log.                                                       *)

UndoEmptyFails ==
    [][ (last'.op = "undo_move" /\ move_history = <<>>)
           => /\ last'.ret.bool = FALSE
              /\ faces' = faces
              /\ move_history' = <<>> ]_vars

\* an undo was tried on an empty log
UndoEmptyWitness ==
    /\ last.op = "undo_move"
    /\ last.ret.bool = FALSE
    /\ move_history = <<>>

(* C10: history inversion after scramble.  A new cube that was scrambled   *)
(* with any count n >= 0 and any draws is solved once solve_and_apply has  *)
(* run on it.                                                              *)

HistoryInversionSolves == last.op = "solve_and_apply" => is_solved(faces)

\* a solution of at least three moves was found and applied
HistoryInversionWitness ==
    /\ last.op = "solve_and_apply"
    /\ ~IsMessage(last.ret.str)
    /\ Len(Split(last.ret.str)) >= 3
    /\ Len(move_history) = 2 * Len(Split(last.ret.str))
    /\ is_solved(faces)

(* C11: sexy move.  A new cube on which execute_algorithm("R U R' U'") was  *)
(* called six times in a row, and nothing else, is solved.                 *)

SexySixTimesSolves == RanTimes(SEXY, 6) => is_solved(faces)

\* the six executions were made; the cube was solved before the first, not
\* solved before any of the other five, and is solved after the sixth
SexySixTimesWitness ==
    /\ RanTimes(SEXY, 6)
    /\ is_solved(snaps[1])
    /\ \A k \in 2..6 : ~is_solved(snaps[k])
    /\ is_solved(faces)

(* C12: Sune.  A new cube on which execute_algorithm("R U R' U R U2 R'")    *)
(* was called six times in a row, and nothing else, is solved.             *)

SuneSixTimesSolves == RanTimes(SUNE, 6) => is_solved(faces)

\* the six executions were made, the U2 of each logged as two turns; the
\* cube was not solved before any but the first, and is solved after the sixth
SuneSixTimesWitness ==
    /\ RanTimes(SUNE, 6)
    /\ Len(move_history) = 48
    /\ is_solved(snaps[1])
    /\ \A k \in 2..6 : ~is_solved(snaps[k])
    /\ is_solved(faces)

(* C13: scramble output.  Every call scramble(n) with n >= 0 returns        *)
(* exactly n tokens separated by single spaces, each a face letter with an *)
(* optional ' or 2, no two neighbours with the same face letter; and the   *)
(* cube it leaves is the one that executing these tokens in the order      *)
(* returned leaves.                                                        *)

ScrambleOutput ==
    [][ (last'.op = "scramble" /\ last'.arg.num >= 0)
           => LET tokens == Split(last'.ret.str)
              IN  /\ Len(tokens) = last'.arg.num
                  /\ Join(tokens) = last'.ret.str
                  /\ \A k \in 1..Len(tokens) : tokens[k] \in LegalTokens
                  /\ \A k \in 2..Len(tokens) : tokens[k][1] # tokens[k - 1][1]
                  /\ ExecuteAll(Cube, tokens).faces = faces'
                  /\ ExecuteAll(Cube, tokens).move_history = move_history' ]_vars

\* a scramble of two draws, X' and then Y2, was made and logged as X', Y, Y
ScrambleOutputWitness ==
    /\ last.op = "scramble"
    /\ last.arg.num = 2
    /\ \E a, b \in ScrambleMoves :
          /\ a # b
          /\ last.ret.str = Join(<< <<a, "'">>, <<b, "2">> >>)
          /\ move_history = << <<a, "'">>, <<b>>, <<b>> >>
    /\ ~is_solved(faces)

(* C14: malformed token.  execute_move with a token whose face letter is   *)
(* none of U, D, F, B, L, R changes neither the grid nor the log; and      *)
(* execute_algorithm leaves the cube that executing its other tokens, in   *)
(* their order, leaves.                                                    *)

Malformed(token) == token # <<>> /\ token[1] \notin ScrambleMoves

WellFormed(token) == ~Malformed(token)

MalformedSkipped ==
    [][ /\ (last'.op = "execute_move" /\ Malformed(Strip(last'.arg.str)))
              => faces' = faces /\ move_history' = move_history
        /\ last'.op = "execute_algorithm"
              => LET others == SelectSeq(Split(last'.arg.str), WellFormed)
                 IN  /\ ExecuteAll(Cube, others).faces = faces'
                     /\ ExecuteAll(Cube, others).move_history = move_history' ]_vars

\* an algorithm with three malformed tokens was executed on a cube that had
\* been turned, and its two other tokens were logged
MalformedSkippedWitness ==
    /\ last.op = "execute_algorithm"
    /\ last.arg.str \in MalformedAlgs
    /\ Len(SelectSeq(Split(last.arg.str), Malformed)) = 3
    /\ Len(move_history) = 3
    /\ move_history[2] = <<"R", "'">>
    /\ move_history[3] = <<"F">>
    /\ ~is_solved(faces)

(* C15: clone independence.  c = cube.copy() has the grid and the log of   *)
(* cube and leaves cube as it is; and every later call (move, scramble,    *)
(* reset, undo) on one of the two leaves the grid and the log of the other *)
(* unchanged.                                                              *)

CloneIndependent ==
    [][ /\ last'.op = "copy"
              => /\ clone'.made
                 /\ clone'.faces = faces /\ clone'.move_history = move_history
                 /\ faces' = faces /\ move_history' = move_history
        /\ (clone.made /\ last'.on = "cube")
              => clone'.faces = clone.faces
                 /\ clone'.move_history = clone.move_history
        /\ (clone.made /\ last'.on = "c")
              => faces' = faces /\ move_history' = move_history ]_vars

\* a turned cube was copied, and a later move on the original changed the
\* original's grid and log while the copy kept those it was made with
CloneIndependentWitness ==
    /\ clone.made
    /\ last.op = "execute_move" /\ last.on = "cube"
    /\ ~is_solved(clone.faces)
    /\ clone.move_history # <<>>
    /\ Len(move_history) = Len(clone.move_history) + 1
    /\ SubSeq(move_history, 1, Len(clone.move_history)) = clone.move_history
    /\ faces # clone.faces

(* C16: reset.  From every reachable state reset() leaves the grid of a    *)
(* new cube, each face uniformly of its own color, and an empty move log;  *)
(* a second reset() changes nothing.                                       *)

ResetRestores ==
    [][ last'.op = "reset"
           => /\ faces' = NewCube.faces
              /\ \A p \in Cells : At(faces', p) = FACE_COLORS[p[1] + 1]
              /\ move_history' = <<>>
              /\ reset([faces |-> faces', move_history |-> move_history'])
                    = [faces |-> faces', move_history |-> move_history'] ]_vars

\* a reset was made
ResetRestoresWitness ==
    /\ last.op = "reset"
    /\ is_solved(faces)
    /\ move_history = <<>>

(* C17: move inverter.  For each of the 18 legal tokens t,                 *)
(* _get_inverse_move maps X2 to X2, X' to X and X to X'; applying it twice *)
(* gives t back; and from every reachable state executing t and then the   *)
(* inverse of t leaves the grid as it was.                                 *)

InverterLaw ==
    \A t \in LegalTokens :
        /\ Len(t) = 1 => get_inverse_move(t) = <<t[1], "'">>
        /\ (Len(t) = 2 /\ t[2] = "'") => get_inverse_move(t) = <<t[1]>>
        /\ (Len(t) = 2 /\ t[2] = "2") => get_inverse_move(t) = t
        /\ get_inverse_move(get_inverse_move(t)) = t
        /\ execute_move(execute_move(Cube, t), get_inverse_move(t)).faces = faces

\* a scramble logged two turns of different faces, and solve_and_apply
\* executed the inverse of the second right after it and then the inverse of
\* the first
InverterLawWitness ==
    /\ last.op = "solve_and_apply"
    /\ ~IsMessage(last.ret.str)
    /\ Len(move_history) = 4
    /\ move_history[1][1] # move_history[2][1]
    /\ move_history[3] = get_inverse_move(move_history[2])
    /\ move_history[4] = get_inverse_move(move_history[1])
    /\ last.ret.str = Join(<<move_history[3], move_history[4]>>)
    /\ is_solved(faces)

(* C18: negative scramble count.  scramble(n) with n < 0 applies no move   *)
(* and leaves the grid and the log as they were, and it does not return    *)
(* as a scramble does: what the caller gets is nothing that a call with a  *)
(* count n >= 0 returns.                                                   *)

\* what scramble returns for the counts 0..MaxScramble
NormalScrambleReturns ==
    {RetStr(scramble(NewCube, draws).ret) :
        draws \in UNION {ScrambleDraws(n) : n \in 0..MaxScramble}}

NegativeScrambleRejected ==
    [][ (last'.op = "scramble" /\ last'.arg.num < 0)
           => /\ faces' = faces
              /\ move_history' = move_history
              /\ last'.ret \notin NormalScrambleReturns ]_vars

(* C19: scramble changes the state.  After scramble(n) with n >= 1 on a    *)
(* solved cube is_solved() is false, whatever the draws.                   *)

ScrambleUnsolves ==
    (last.op = "scramble" /\ last.arg.num >= 1) => ~is_solved(faces)

(* C20: solver on a solved cube.  Whenever is_solved() is true, solve()    *)
(* and get_solution() return the already-solved message, not a move        *)
(* sequence, whatever the move log holds; and neither call changes the     *)
(* grid or the log.                                                        *)

SolvedCubeMessage ==
    [][ last'.op \in {"solve", "get_solution"}
           => /\ faces' = faces
              /\ move_history' = move_history
              /\ is_solved(faces)
                    => /\ last'.ret.str = ALREADY_SOLVED
                       /\ IsMessage(last'.ret.str) ]_vars

\* solve() was called on a cube that X and then X' had left solved, with
\* both in its log
SolvedCubeMessageWitness ==
    /\ last.op = "solve"
    /\ is_solved(faces)
    /\ Len(move_history) = 2
    /\ InversePair(move_history[1], move_history[2])
    /\ last.ret.str = ALREADY_SOLVED

(* C21: log and grid agree.  In every state reachable by execute_move,     *)
(* execute_algorithm, scramble, undo_move, reset and applied solutions the *)
(* grid is the one that replaying the entries of the move log, in order,   *)
(* on a new cube gives.  So solve() never answers that there is no         *)
(* history, and solve_and_apply leaves the cube solved: the call made from *)
(* the state as well as every call that was made.                          *)

\* the grid that replaying the log on a new cube gives
Replay(log) == ExecuteAll(NewCube, log).faces

LogGridConsistent ==
    /\ faces = Replay(move_history)
    /\ ~is_solved(faces) => move_history # <<>>
    /\ solve(Cube) # NO_HISTORY
    /\ is_solved(solve_and_apply(Cube).cube.faces)
    /\ last.op = "solve_and_apply" => is_solved(faces)

\* a move of a scrambled cube was undone, and log and grid still agree on
\* a cube that is not solved
LogGridConsistentWitness ==
    /\ last.op = "undo_move"
    /\ last.ret.bool = TRUE
    /\ Len(move_history) = 2
    /\ move_history[1][1] # move_history[2][1]
    /\ ~is_solved(faces)
    /\ faces = Replay(move_history)
    /\ ~IsMessage(solve(Cube))

(* C22: token grammar.  execute_move changes the grid or the log only for  *)
(* a token that, stripped of the white space around it, is one of the 18   *)
(* tokens X, X', X2; any other string, "U'2" among them, leaves grid and   *)
(* log unchanged.                                                          *)

OnlyGrammarTokensAct ==
    [][ (last'.op = "execute_move" /\ Strip(last'.arg.str) \notin LegalTokens)
           => faces' = faces /\ move_history' = move_history ]_vars

(* C23: centres fixed.  In every reachable state the centre [1][1] of each *)
(* face holds the color the face started with, so is_solved() is true      *)
(* exactly when the grid is the grid of a new cube.                        *)

CentresFixed ==
    /\ \A f \in FaceIdx : faces[f][1][1] = FACE_COLORS[f + 1]
    /\ is_solved(faces) <=> faces = NewCube.faces

\* after three logged turns no face is of one color, and every face still
\* has its own color at the centre
CentresFixedWitness ==
    /\ Len(move_history) = 3
    /\ \A f \in FaceIdx :
          /\ faces[f][1][1] = FACE_COLORS[f + 1]
          /\ \E r, c \in 0..2 : faces[f][r][c] # FACE_COLORS[f + 1]
    /\ ~is_solved(faces)

(* C24: frame of a quarter turn.  A quarter turn of a face, clockwise or   *)
(* counter-clockwise, changes only the 9 cells of that face and the 12     *)
(* cells of the strips next to it on its four neighbours; the other 33     *)
(* cells keep their colors.                                                *)

Row(f, r) == {<<f, r, c>> : c \in 0..2}

Col(f, c) == {<<f, r, c>> : r \in 0..2}

Face(f) == {<<f, r, c>> : r \in 0..2, c \in 0..2}

\* the cells a turn may change
TurnFrame(op) ==
    CASE op = "move_U" ->
            Face(U) \cup Row(F, 0) \cup Row(R, 0) \cup Row(B, 0) \cup Row(L, 0)
      [] op = "move_D" ->
            Face(D) \cup Row(F, 2) \cup Row(R, 2) \cup Row(B, 2) \cup Row(L, 2)
      [] op = "move_F" ->
            Face(F) \cup Row(U, 2) \cup Col(R, 0) \cup Row(D, 0) \cup Col(L, 2)
      [] op = "move_B" ->
            Face(B) \cup Row(U, 0) \cup Col(R, 2) \cup Row(D, 2) \cup Col(L, 0)
      [] op = "move_L" ->
            Face(L) \cup Col(U, 0) \cup Col(F, 0) \cup Col(D, 0) \cup Col(B, 2)
      [] op = "move_R" ->
            Face(R) \cup Col(U, 2) \cup Col(F, 2) \cup Col(D, 2) \cup Col(B, 0)

TurnFrameKept ==
    [][ last'.op \in ClockwiseTurnOps
           => /\ Cardinality(Cells \ TurnFrame(last'.op)) = 33
              /\ \A p \in Cells \ TurnFrame(last'.op) :
                    At(faces', p) = At(faces, p) ]_vars

\* the cells whose color the last call changed
ChangedByLast == {p \in Cells : At(faces, p) # At(snaps[Len(snaps)], p)}

\* the fourth turn made changed at least 15 cells, all of them in its frame
TurnFrameKeptWitness ==
    /\ Len(snaps) = 4
    /\ last.op \in ClockwiseTurnOps
    /\ Cardinality(ChangedByLast) >= 15
    /\ ChangedByLast \subseteq TurnFrame(last.op)

(* C25: batch rejection.  A line that reaches the moves branch of the      *)
(* command loop is applied, token by token in order, if every one of its   *)
(* tokens is after upper-casing one of the 18 legal tokens; if any token   *)
(* is not, no move of the line is made and grid and log stay as they were. *)

BatchRejected ==
    [][ last'.op = "move_input"
           => LET moves == Split(Upper(Strip(last'.arg.str)))
              IN  IF \A k \in 1..Len(moves) : moves[k] \in LegalTokens
                  THEN \E done \in {ExecuteAll(Cube, moves)} :
                          /\ faces' = done.faces
                          /\ move_history' = done.move_history
                  ELSE /\ faces' = faces
                       /\ move_history' = move_history ]_vars

\* a line with a legal and an illegal token was typed on a turned cube and
\* left it as it was, where execute_algorithm makes the legal one
BatchRejectedWitness ==
    /\ last.op = "move_input"
    /\ Len(move_history) = 2
    /\ ~is_solved(faces)
    /\ Len(Split(Upper(last.arg.str))) = 2
    /\ \E k \in 1..2 : Split(Upper(last.arg.str))[k] \in LegalTokens
    /\ \E k \in 1..2 : Split(Upper(last.arg.str))[k] \notin LegalTokens
    /\ move_input(Cube, last.arg.str) = Cube
    /\ execute_algorithm(Cube, Upper(last.arg.str)) # Cube

====
